---- MODULE Spec2Model ----
(***************************************************************************)
(* Model of src/appy.py: a Streamlit script that, when the sidebar button  *)
(* is pressed, loads a GFS run through the memoised load_dataset, resolves *)
(* the selected parameter into a display field, clips it to the West       *)
(* Kalimantan box and renders a map.                                       *)
(*                                                                         *)
(* One request is the sequence ButtonClick -> Load -> Resolve -> Clip ->   *)
(* Render.  The only state that survives a request is the st.cache_data    *)
(* store of load_dataset.                                                  *)
(*                                                                         *)
(* Numbers.  Field values are fixed-point integers counting hundredths of  *)
(* the field's unit (30000 is 300.00 K); every arithmetic step rounds to   *)
(* that resolution, in the order the script applies the steps; the         *)
(* rounding of binary floating point is not modelled.  Latitudes and       *)
(* longitudes are whole degrees.                                           *)
(***************************************************************************)
EXTENDS Integers, Sequences, FiniteSets, TLC

VARIABLES
    cache,          \* st.cache_data store of load_dataset: key -> dataset
    opens,          \* number of xr.open_dataset calls made so far
    pc,             \* position of the script run
    run_date,       \* sidebar date_input
    run_hour,       \* sidebar selectbox "Jam Run GFS (UTC)"
    forecast_hour,  \* sidebar slider
    parameter,      \* sidebar selectbox "Parameter"
    load,           \* how this request's load_dataset call ended
    ds,             \* the script's ds
    var,            \* the script's var
    u,              \* the script's u
    v,              \* the script's v
    is_contour,
    is_vector,
    style,          \* label, cmap, vmin, vmax of the resolved parameter
    reads,          \* dataset members read by this request (ds[...] and ds.time)
    drawn,          \* draw calls made on the axes, in order
    arrows,         \* the arguments handed to ax.quiver, one record per arrow
    out             \* what this request has emitted to the page, in order

vars == <<cache, opens, pc, run_date, run_hour, forecast_hour, parameter, load,
          ds, var, u, v, is_contour, is_vector, style, reads, drawn, arrows, out>>

(***************************************************************************)
(* Bounds of the model.                                                    *)
(***************************************************************************)
\* Remote opens (xr.open_dataset calls) explored in one behaviour.
MaxOpens == 2

(***************************************************************************)
(* Inputs.                                                                 *)
(***************************************************************************)
\* Dates the user picks in the date_input (a sample of the calendar).
Dates == { [y |-> 2024, m |-> 1, d |-> 31], [y |-> 2024, m |-> 2, d |-> 1] }

RunHours == {"00", "06", "12", "18"}

SliderMin == 0
SliderMax == 240

\* Slider positions explored: the ends of the slider and both sides of the
\* end of the hourly product's time axis.
ForecastHours == { h \in SliderMin..SliderMax : h \in {0, 120, 121, 240} }

ParameterOptions ==
    { "Curah Hujan per jam (pratesfc)",
      "Suhu Permukaan (tmp2m)",
      "Angin Permukaan (ugrd10m & vgrd10m)",
      "Tekanan Permukaan Laut (prmslmsl)" }

\* Parameter strings for the pipeline driven with an arbitrary string, as a
\* test of the dispatch does: the four options, strings no rule matches, and
\* a string two rules match.
AnyParameterStrings ==
    ParameterOptions \cup {"foobar", "", "PRATESFC", "tmp2m over prmsl"}

(***************************************************************************)
(* Strings.                                                                *)
(***************************************************************************)
\* Python's `sub in s`.
Contains(sub, s) ==
    \E i \in 1..(Len(s) - Len(sub) + 1) : SubSeq(s, i, i + Len(sub) - 1) = sub

\* run_date.strftime("%Y%m%d"): the eight digits, read as a number.
Strftime(date) == date.y * 10000 + date.m * 100 + date.d

\* f"t+{forecast_hour:03d}": the three digits after "t+".
Tstr(h) == <<"t+", h \div 100, (h \div 10) % 10, h % 10>>

(***************************************************************************)
(* The remote dataset.                                                     *)
(***************************************************************************)
\* A regular coordinate axis.
Axis(first, n, step) == [i \in 1..n |-> first + (i - 1) * step]

BaseUrl(date_str, hour) == <<"gfs", date_str, "gfs_0p25_1hr", hour, "z">>

\* The two regular coordinate axes of a dataset, each given by its first
\* value, length and spacing.
Grid(lat0, nlat, dlat, lon0, nlon, dlon) ==
    [lat0 |-> lat0, nlat |-> nlat, dlat |-> dlat,
     lon0 |-> lon0, nlon |-> nlon, dlon |-> dlon]

\* The dataset the server holds for a URL.  The hourly product has 121 time
\* steps.  The axes are a window of the grid around the region; the runs
\* differ in how the window is stored: ascending (as NOMADS serves it), with
\* the latitude axis stored north to south, and a window outside the region.
RemoteDataset(url) ==
    [url |-> url, ntime |-> 121,
     grid |-> CASE url[4] = "06" -> Grid(5, 12, -1, 106, 6, 2)
                [] url[4] = "18" -> Grid(6, 3, 1, 117, 3, 2)
                [] OTHER         -> Grid(-6, 12, 1, 106, 6, 2)]

NoDs == [url |-> <<>>, ntime |-> 0, grid |-> Grid(0, 0, 1, 0, 0, 1)]

\* ds.lat and ds.lon
Lat(d) == Axis(d.grid.lat0, d.grid.nlat, d.grid.dlat)

Lon(d) == Axis(d.grid.lon0, d.grid.nlon, d.grid.dlon)

FieldNames == {"pratesfc", "tmp2m", "ugrd10m", "vgrd10m", "prmslmsl"}

\* Content of the synthetic dataset: field `name` at time step t (0-based) and
\* coordinates (la, lo), in hundredths of the field's unit.
FieldValue(name, t, la, lo) ==
    CASE name = "pratesfc" -> ((la + lo + t) % 4) * 50
      [] name = "tmp2m"    -> 30000 + 10 * la - 25 * (lo - 110) - t
      [] name = "ugrd10m"  -> 100 * la - 200 + 5 * (t % 7)
      [] name = "vgrd10m"  -> 50 * (lo - 110) - 5 * (t % 7)
      [] name = "prmslmsl" -> 10132500 + 1234 * la - 55 * lo + t

NoArray == [lat |-> <<>>, lon |-> <<>>, values |-> <<>>]

\* Positional index beyond the time axis: IndexError.
OutOfRangeNever(d, t) == FALSE

OutOfRange(d, t) == t >= d.ntime

\* ds[name][t, :, :]
IndexStep(d, name, t) ==
    [lat |-> Lat(d), lon |-> Lon(d),
     values |-> [i \in 1..d.grid.nlat |-> [j \in 1..d.grid.nlon |->
                    FieldValue(name, t, Lat(d)[i], Lon(d)[j])]]]

(***************************************************************************)
(* Elementwise arithmetic on a 2-D field.                                  *)
(***************************************************************************)
\* * 3600
PerHour(x) == x * 3600

\* - 273.15
ToCelsiusWholeKelvin(x) == x - 27300

ToCelsius(x) == x - 27315

\* / 100
ToHPa(x) == x \div 100

\* The scalar arithmetic of a branch, by the name of its operation.
Apply(op, x) ==
    CASE op = "per_hour"   -> PerHour(x)
      [] op = "to_celsius" -> ToCelsius(x)
      [] op = "to_hpa"     -> ToHPa(x)

\* Arithmetic between a field and a scalar acts on every cell.
MapValues(op, a) ==
    [a EXCEPT !.values = [i \in DOMAIN a.values |->
                            [j \in DOMAIN a.values[i] |-> Apply(op, a.values[i][j])]]]

\* x ** 0.5, rounded down to the resolution: the largest r with r * r <= n,
\* found by bisection of lo..hi.
RECURSIVE SqrtBetween(_, _, _)
SqrtBetween(n, lo, hi) ==
    IF lo >= hi THEN lo
    ELSE LET mid == (lo + hi + 1) \div 2
         IN  IF mid * mid <= n THEN SqrtBetween(n, mid, hi)
             ELSE SqrtBetween(n, lo, mid - 1)

Sqrt(n) == SqrtBetween(n, 0, 10000)

\* (u**2 + v**2)**0.5 * 1.94384 for one cell.
SpeedOfSum(x, y) == ((x + y) * 194384) \div 100000

SpeedOf(x, y) == (Sqrt(x * x + y * y) * 194384) \div 100000

\* The same, elementwise over two fields on one grid.
Speed(a, b) ==
    [a EXCEPT !.values = [i \in DOMAIN a.values |->
                            [j \in DOMAIN a.values[i] |->
                                SpeedOf(a.values[i][j], b.values[i][j])]]]

(***************************************************************************)
(* Label-based selection.                                                  *)
(***************************************************************************)
lat_min == -5
lat_max == 4
lon_min == 107
lon_max == 115

IsAscending(axis) == \A i \in 1..(Len(axis) - 1) : axis[i] < axis[i + 1]

\* The positions (first, last), 1-based and inclusive, that slice(lo, hi)
\* selects on a monotonic axis: both ends of a label slice are inclusive; on
\* a descending axis the labels are looked up in the axis's own direction.
SliceIndexer(axis, lo, hi) ==
    IF IsAscending(axis)
    THEN << Cardinality({i \in DOMAIN axis : axis[i] < lo}) + 1,
            Cardinality({i \in DOMAIN axis : axis[i] <= hi}) >>
    ELSE << Cardinality({i \in DOMAIN axis : axis[i] > lo}) + 1,
            Cardinality({i \in DOMAIN axis : axis[i] >= hi}) >>

\* a.sel(lat=slice(la_lo, la_hi), lon=slice(lo_lo, lo_hi))
Sel(a, la_lo, la_hi, lo_lo, lo_hi) ==
    LET r == SliceIndexer(a.lat, la_lo, la_hi)
        c == SliceIndexer(a.lon, lo_lo, lo_hi)
    IN  [lat |-> SubSeq(a.lat, r[1], r[2]),
         lon |-> SubSeq(a.lon, c[1], c[2]),
         values |-> [i \in 1..(r[2] - r[1] + 1) |->
                       [j \in 1..(c[2] - c[1] + 1) |->
                           a.values[r[1] + i - 1][c[1] + j - 1]]]]

\* The clip of the primary field.
ClipInverted(a) == Sel(a, lat_max, lat_min, lon_min, lon_max)

Clip(a) == Sel(a, lat_min, lat_max, lon_min, lon_max)

\* The clip of a wind component.
ClipVectorLatOnly(a) == Sel(a, lat_min, lat_max, a.lon[1], a.lon[Len(a.lon)])

ClipVector(a) == Sel(a, lat_min, lat_max, lon_min, lon_max)

(***************************************************************************)
(* load_dataset under st.cache_data.                                       *)
(***************************************************************************)
\* The memo key of a call: its arguments.
CacheKey(date_str, hour) == <<date_str, hour>>

\* Whether the store holds a value for the key.
CacheHitNever(c, key) == FALSE

CacheHit(c, key) == key \in DOMAIN c

\* The store after a computed value is written: st.cache_data is given no
\* max_entries and no ttl, so the other entries stay.
CacheStoreSingleEntry(c, key, value) == [k \in {key} |-> value]

CacheStore(c, key, value) ==
    [k \in DOMAIN c \cup {key} |-> IF k = key THEN value ELSE c[k]]

(***************************************************************************)
(* The state after construction: the script has run once without the       *)
(* button pressed; the widgets hold their defaults.                        *)
(***************************************************************************)
NoStyle == [label |-> "", cmap |-> "", vmin |-> 0, vmax |-> 0]

Init ==
    /\ cache = << >>
    /\ opens = 0
    /\ pc = "idle"
    /\ run_date \in Dates
    /\ run_hour = "00"
    /\ forecast_hour = 0
    /\ parameter = "Curah Hujan per jam (pratesfc)"
    /\ load = "none"
    /\ ds = NoDs
    /\ var = NoArray
    /\ u = NoArray
    /\ v = NoArray
    /\ is_contour = FALSE
    /\ is_vector = FALSE
    /\ style = NoStyle
    /\ reads = {}
    /\ drawn = << >>
    /\ arrows = {}
    /\ out = << >>

\* The script is not running: it never ran the pipeline, ran it to the end,
\* was stopped by st.stop(), or ended on an uncaught exception.
Finished == pc \in {"idle", "done", "stopped", "crashed"}

\* The user sets the sidebar widgets and presses the button: the script
\* reruns from the top with the widgets' values, and everything a previous
\* run left on the page is gone.  Strings is the set the parameter is drawn
\* from.
ButtonClick(Strings) ==
    /\ Finished
    /\ \E d \in Dates, h \in RunHours, f \in ForecastHours, p \in Strings :
          /\ CacheHit(cache, CacheKey(Strftime(d), h)) \/ opens < MaxOpens
          /\ run_date' = d
          /\ run_hour' = h
          /\ forecast_hour' = f
          /\ parameter' = p
    /\ pc' = "load"
    /\ load' = "none"
    /\ ds' = NoDs
    /\ var' = NoArray
    /\ u' = NoArray
    /\ v' = NoArray
    /\ is_contour' = FALSE
    /\ is_vector' = FALSE
    /\ style' = NoStyle
    /\ reads' = {}
    /\ drawn' = << >>
    /\ arrows' = {}
    /\ out' = << >>
    /\ UNCHANGED <<cache, opens>>

\* The except branch: st.error, then st.stop().
LoadFailedNoStop(o) == [out |-> Append(o, "error"), pc |-> "resolve"]

LoadFailed(o) == [out |-> Append(o, "error"), pc |-> "stopped"]

\* try: ds = load_dataset(...); st.success(...)  except: st.error; st.stop()
Load ==
    /\ pc = "load"
    /\ LET date_str == Strftime(run_date)
           key == CacheKey(date_str, run_hour)
       IN  \/ /\ CacheHit(cache, key)
              /\ ds' = cache[key]
              /\ load' = "hit"
              /\ out' = Append(out, "success")
              /\ pc' = "resolve"
              /\ UNCHANGED <<cache, opens>>
           \/ /\ ~CacheHit(cache, key)
              /\ ds' = RemoteDataset(BaseUrl(date_str, run_hour))
              /\ cache' = CacheStore(cache, key, ds')
              /\ opens' = opens + 1
              /\ load' = "opened"
              /\ out' = Append(out, "success")
              /\ pc' = "resolve"
           \/ /\ ~CacheHit(cache, key)
              /\ opens' = opens + 1
              /\ load' = "failed"
              /\ out' = LoadFailed(out).out
              /\ pc' = LoadFailed(out).pc
              /\ UNCHANGED <<cache, ds>>
    /\ UNCHANGED <<run_date, run_hour, forecast_hour, parameter, var, u, v,
                   is_contour, is_vector, style, reads, drawn, arrows>>

(***************************************************************************)
(* Parameter dispatch.                                                     *)
(***************************************************************************)
\* The if/elif/else chain: the first substring test that succeeds.
RuleElseRain(p) ==
    IF Contains("pratesfc", p) THEN "pratesfc"
    ELSE IF Contains("tmp2m", p) THEN "tmp2m"
    ELSE IF Contains("ugrd10m", p) THEN "ugrd10m"
    ELSE IF Contains("prmsl", p) THEN "prmsl"
    ELSE "pratesfc"

RuleReversed(p) ==
    IF Contains("prmsl", p) THEN "prmsl"
    ELSE IF Contains("ugrd10m", p) THEN "ugrd10m"
    ELSE IF Contains("tmp2m", p) THEN "tmp2m"
    ELSE IF Contains("pratesfc", p) THEN "pratesfc"
    ELSE "none"

Rule(p) ==
    IF Contains("pratesfc", p) THEN "pratesfc"
    ELSE IF Contains("tmp2m", p) THEN "tmp2m"
    ELSE IF Contains("ugrd10m", p) THEN "ugrd10m"
    ELSE IF Contains("prmsl", p) THEN "prmsl"
    ELSE "none"

\* The dataset member a branch indexes first.
FirstField(rule) ==
    CASE rule = "pratesfc" -> "pratesfc"
      [] rule = "tmp2m"    -> "tmp2m"
      [] rule = "ugrd10m"  -> "ugrd10m"
      [] rule = "prmsl"    -> "prmslmsl"

\* What a branch leaves behind when its indexing succeeds.
Resolved(rule, d, t) ==
    CASE rule = "pratesfc" ->
            [var |-> MapValues("per_hour", IndexStep(d, "pratesfc", t)),
             u |-> NoArray, v |-> NoArray,
             style |-> [label |-> "Curah Hujan (mm/jam)", cmap |-> "Blues",
                        vmin |-> 0, vmax |-> 50],
             is_contour |-> FALSE, is_vector |-> FALSE,
             reads |-> {"pratesfc"}]
      [] rule = "tmp2m" ->
            [var |-> MapValues("to_celsius", IndexStep(d, "tmp2m", t)),
             u |-> NoArray, v |-> NoArray,
             style |-> [label |-> "Suhu (C)", cmap |-> "coolwarm",
                        vmin |-> -10, vmax |-> 35],
             is_contour |-> FALSE, is_vector |-> FALSE,
             reads |-> {"tmp2m"}]
      [] rule = "ugrd10m" ->
            [var |-> Speed(IndexStep(d, "ugrd10m", t), IndexStep(d, "vgrd10m", t)),
             u |-> IndexStep(d, "ugrd10m", t),
             v |-> IndexStep(d, "vgrd10m", t),
             style |-> [label |-> "Kecepatan Angin (knot)", cmap |-> "RdYlGn_r",
                        vmin |-> 0, vmax |-> 50],
             is_contour |-> FALSE, is_vector |-> TRUE,
             reads |-> {"ugrd10m", "vgrd10m"}]
      [] rule = "prmsl" ->
            [var |-> MapValues("to_hpa", IndexStep(d, "prmslmsl", t)),
             u |-> NoArray, v |-> NoArray,
             style |-> [label |-> "Tekanan Permukaan Laut (hPa)", cmap |-> "cool",
                        vmin |-> 980, vmax |-> 1020],
             is_contour |-> TRUE, is_vector |-> FALSE,
             reads |-> {"prmslmsl"}]

\* is_contour = is_vector = False, then the chain.  No rule: st.warning and
\* st.stop().  A rule whose positional index is past the time axis: the
\* IndexError leaves the script uncaught, raised by the branch's first
\* indexing.
Resolve ==
    /\ pc = "resolve"
    /\ LET rule == Rule(parameter)
       IN  \/ /\ rule = "none"
              /\ out' = Append(out, "warning")
              /\ pc' = "stopped"
              /\ UNCHANGED <<var, u, v, is_contour, is_vector, style, reads>>
           \/ /\ rule # "none"
              /\ OutOfRange(ds, forecast_hour)
              /\ reads' = reads \cup {FirstField(rule)}
              /\ out' = Append(out, "exception")
              /\ pc' = "crashed"
              /\ UNCHANGED <<var, u, v, is_contour, is_vector, style>>
           \/ /\ rule # "none"
              /\ ~OutOfRange(ds, forecast_hour)
              /\ LET r == Resolved(rule, ds, forecast_hour)
                 IN  /\ var' = r.var
                     /\ u' = r.u
                     /\ v' = r.v
                     /\ style' = r.style
                     /\ is_contour' = r.is_contour
                     /\ is_vector' = r.is_vector
                     /\ reads' = reads \cup r.reads
              /\ pc' = "clip"
              /\ UNCHANGED out
    /\ UNCHANGED <<cache, opens, run_date, run_hour, forecast_hour, parameter,
                   load, ds, drawn, arrows>>

(***************************************************************************)
(* Regional clip.                                                          *)
(***************************************************************************)
ClipStep ==
    /\ pc = "clip"
    /\ var' = Clip(var)
    /\ IF is_vector
       THEN u' = ClipVector(u) /\ v' = ClipVector(v)
       ELSE UNCHANGED <<u, v>>
    /\ pc' = "render"
    /\ UNCHANGED <<cache, opens, run_date, run_hour, forecast_hour, parameter,
                   load, ds, is_contour, is_vector, style, reads, drawn, arrows,
                   out>>

(***************************************************************************)
(* Plot, page output and download button.                                  *)
(***************************************************************************)
\* The positions a [::5] slice keeps of an axis of length n.
Strided(n) == {i \in 1..n : (i - 1) % 5 = 0}

\* ax.quiver(lon2d[::5, ::5], lat2d[::5, ::5], u.values[::5, ::5],
\* v.values[::5, ::5]): lon2d and lat2d are the meshgrid of var's axes; the
\* four arrays are paired by position.
QuiverArgs(field, uu, vv) ==
    { [x |-> field.lon[j], y |-> field.lat[i],
       u |-> uu.values[i][j], v |-> vv.values[i][j]] :
         i \in Strided(Len(field.lat)), j \in Strided(Len(field.lon)) }

\* Whether the four strided arrays have one shape.
QuiverShapesAgree(field, uu, vv) ==
    /\ Cardinality(Strided(Len(uu.lat))) = Cardinality(Strided(Len(field.lat)))
    /\ Cardinality(Strided(Len(vv.lat))) = Cardinality(Strided(Len(field.lat)))
    /\ Cardinality(Strided(Len(uu.lon))) = Cardinality(Strided(Len(field.lon)))
    /\ Cardinality(Strided(Len(vv.lon))) = Cardinality(Strided(Len(field.lon)))

IsEmpty(a) == Len(a.lat) = 0 \/ Len(a.lon) = 0

\* The page output of a run that reaches the end of the script.
PageOutput == <<"pyplot", "markdown", "download">>

\* An exception raised by a plotting call leaves the script uncaught.
Crash ==
    /\ out' = Append(out, "exception")
    /\ pc' = "crashed"

Render ==
    /\ pc = "render"
    /\ reads' = reads \cup {"time"}
    /\ \/ \* contour needs at least a 2 x 2 field
          /\ is_contour
          /\ Len(var.lat) >= 2 /\ Len(var.lon) >= 2
          /\ drawn' = Append(drawn, "contour")
          /\ arrows' = arrows
          /\ out' = out \o PageOutput
          /\ pc' = "done"
       \/ /\ is_contour
          /\ Len(var.lat) < 2 \/ Len(var.lon) < 2
          /\ UNCHANGED <<drawn, arrows>>
          /\ Crash
       \/ /\ ~is_contour /\ ~is_vector
          /\ drawn' = Append(drawn, "pcolormesh")
          /\ arrows' = arrows
          /\ out' = out \o PageOutput
          /\ pc' = "done"
       \/ /\ ~is_contour /\ is_vector
          /\ QuiverShapesAgree(var, u, v)
          /\ drawn' = drawn \o <<"pcolormesh", "quiver">>
          /\ arrows' = QuiverArgs(var, u, v)
          /\ out' = out \o PageOutput
          /\ pc' = "done"
       \/ /\ ~is_contour /\ is_vector
          /\ ~QuiverShapesAgree(var, u, v)
          /\ drawn' = Append(drawn, "pcolormesh")
          /\ arrows' = arrows
          /\ Crash
       \/ \* a mesh over an empty field: whether the plotting library draws
          \* nothing or raises is its own affair
          /\ ~is_contour
          /\ IsEmpty(var)
          /\ UNCHANGED <<drawn, arrows>>
          /\ Crash
    /\ UNCHANGED <<cache, opens, run_date, run_hour, forecast_hour, parameter,
                   load, ds, var, u, v, is_contour, is_vector, style>>

(***************************************************************************)
(* Specifications.                                                         *)
(***************************************************************************)
\* The button pressed with the sidebar's own parameter options.
Click == ButtonClick(ParameterOptions)

\* The pipeline driven with an arbitrary parameter string.
ClickAny == ButtonClick(AnyParameterStrings)

Next == Click \/ Load \/ Resolve \/ ClipStep \/ Render

Spec == Init /\ [][Next]_vars

NextAny == ClickAny \/ Load \/ Resolve \/ ClipStep \/ Render

SpecAny == Init /\ [][NextAny]_vars

(***************************************************************************)
(* Properties.                                                             *)
(***************************************************************************)
\* The memo key of the current request, written out.
RequestKey == <<run_date.y * 10000 + run_date.m * 100 + run_date.d, run_hour>>

\* The load of the current request returned a dataset.
Loaded == load \in {"hit", "opened"}

\* The request has left the parameter dispatch.
PastResolve == pc \in {"clip", "render", "done", "stopped", "crashed"}

\* The request has executed the regional clip.
PastClip == pc = "render" \/ "time" \in reads

\* The request has resolved a display field.
HasField == pc \in {"clip", "render", "done"} \/ "time" \in reads

Cells(a) == {<<i, j>> : i \in 1..Len(a.lat), j \in 1..Len(a.lon)}

\* C1: a request whose load_dataset call raised shows the error and stops:
\* it emits nothing but the error (no success message, no plot, no download),
\* reads no dataset member, resolves and clips no field and draws nothing.
C1_FailedLoadStops ==
    load = "failed" =>
        /\ pc = "stopped"
        /\ out = <<"error">>
        /\ reads = {}
        /\ ds = NoDs
        /\ var = NoArray /\ u = NoArray /\ v = NoArray
        /\ drawn = << >>
        /\ arrows = {}

C1_Witness == load = "failed" /\ pc = "stopped" /\ out = <<"error">> /\ opens > 0

\* C2: a load_dataset call whose arguments are already in the store opens
\* nothing remotely and returns the stored dataset, and every remote open that
\* succeeds is stored under its arguments; so two successful calls with the
\* same arguments make one remote open.
C2_SecondCallIsCacheHit ==
    [][ pc = "load" =>
          /\ RequestKey \in DOMAIN cache =>
                /\ opens' = opens
                /\ cache' = cache
                /\ load' = "hit"
                /\ ds' = cache[RequestKey]
          /\ load' = "opened" =>
                /\ RequestKey \notin DOMAIN cache
                /\ opens' = opens + 1
                /\ RequestKey \in DOMAIN cache'
                /\ cache'[RequestKey] = ds' ]_vars

C2_Witness ==
    /\ load = "hit" /\ pc = "resolve" /\ opens = 1
    /\ ds = cache[RequestKey] /\ ds.url[2] = RequestKey[1] /\ ds.url[4] = run_hour

\* C7 as claimed: the store never holds more than one dataset.
C7_AtMostOneEntry == Cardinality(DOMAIN cache) <= 1

\* C7 as amended: the store keeps every dataset it has loaded; a load with
\* other arguments adds an entry and removes or replaces none.
C7_EntriesAreKept ==
    [][ \A k \in DOMAIN cache : k \in DOMAIN cache' /\ cache'[k] = cache[k] ]_vars

C7_Witness ==
    /\ Cardinality(DOMAIN cache) = 2
    /\ load = "hit" /\ pc = "done" /\ opens = 2

NoRuleMatches(p) ==
    /\ ~Contains("pratesfc", p)
    /\ ~Contains("tmp2m", p)
    /\ ~Contains("ugrd10m", p)
    /\ ~Contains("prmsl", p)

\* C3: with a parameter string that holds none of the four substrings, the
\* request never reads a dataset member, never resolves, clips or draws a
\* field, and once loaded ends stopped, having emitted the success message
\* of the load and then the warning.
C3_UnrecognizedAborts ==
    NoRuleMatches(parameter) =>
        /\ pc \in {"load", "resolve", "stopped"}
        /\ reads = {}
        /\ var = NoArray /\ u = NoArray /\ v = NoArray
        /\ ~is_contour /\ ~is_vector
        /\ drawn = << >>
        /\ arrows = {}
        /\ (Loaded /\ pc = "stopped") => out = <<"success", "warning">>
        /\ (Loaded /\ pc # "stopped") => out = <<"success">>

C3_Witness ==
    /\ parameter = "foobar" /\ Loaded
    /\ pc = "stopped" /\ out = <<"success", "warning">>

RuleOrder == <<"pratesfc", "tmp2m", "ugrd10m", "prmsl">>

Matching(p) == {i \in 1..4 : Contains(RuleOrder[i], p)}

\* The first rule, in the order of the chain, whose substring p holds.
FirstMatch(p) == RuleOrder[CHOOSE i \in Matching(p) : \A k \in Matching(p) : i <= k]

\* The dataset members, flags and draw calls of a rule.
Expected(rule) ==
    CASE rule = "pratesfc" ->
            [reads |-> {"pratesfc"}, is_contour |-> FALSE, is_vector |-> FALSE,
             drawn |-> <<"pcolormesh">>]
      [] rule = "tmp2m" ->
            [reads |-> {"tmp2m"}, is_contour |-> FALSE, is_vector |-> FALSE,
             drawn |-> <<"pcolormesh">>]
      [] rule = "ugrd10m" ->
            [reads |-> {"ugrd10m", "vgrd10m"}, is_contour |-> FALSE,
             is_vector |-> TRUE, drawn |-> <<"pcolormesh", "quiver">>]
      [] rule = "prmsl" ->
            [reads |-> {"prmslmsl"}, is_contour |-> TRUE, is_vector |-> FALSE,
             drawn |-> <<"contour">>]

\* C4: each of the four selector values holds exactly one of the four
\* substrings; a string that holds several is resolved by the first in the
\* order of the chain; a request whose string matches and whose step is in
\* range reads exactly the matched rule's dataset members, sets its flags and,
\* when it completes, has made its draw calls; the contour and vector flags
\* are never both set.
C4_DispatchByFirstSubstring ==
    /\ \A p \in ParameterOptions : Cardinality(Matching(p)) = 1
    /\ ~(is_contour /\ is_vector)
    /\ (Matching(parameter) # {} /\ Loaded /\ PastResolve
            /\ forecast_hour < ds.ntime) =>
          /\ HasField
          /\ reads \ {"time"} = Expected(FirstMatch(parameter)).reads
          /\ is_contour = Expected(FirstMatch(parameter)).is_contour
          /\ is_vector = Expected(FirstMatch(parameter)).is_vector
          /\ pc = "done" => drawn = Expected(FirstMatch(parameter)).drawn

C4_Witness ==
    /\ pc = "done"
    /\ parameter = "Angin Permukaan (ugrd10m & vgrd10m)"
    /\ drawn = <<"pcolormesh", "quiver">>
    /\ is_vector /\ ~is_contour

\* The source value of field `name` behind cell c of the display field: the
\* dataset's value at the selected step and at the cell's own coordinates.
Source(name, c) == FieldValue(name, forecast_hour, var.lat[c[1]], var.lon[c[2]])

\* C5: every cell of the display field, before and after the clip, is the
\* unit conversion of the source field's value at the selected step and at
\* that cell's coordinates: rate x 3600 (1.00 gives 3600.00), temperature
\* minus 273.15 (300.00 K gives 26.85), pressure / 100 to the resolution of
\* the arithmetic.
C5_UnitConversions ==
    HasField =>
        \A c \in Cells(var) :
            LET x == var.values[c[1]][c[2]]
            IN  /\ reads \ {"time"} = {"pratesfc"} =>
                      /\ x = 3600 * Source("pratesfc", c)
                      /\ Source("pratesfc", c) = 100 => x = 360000
                /\ reads \ {"time"} = {"tmp2m"} =>
                      /\ x + 27315 = Source("tmp2m", c)
                      /\ Source("tmp2m", c) = 30000 => x = 2685
                /\ reads \ {"time"} = {"prmslmsl"} =>
                      /\ 100 * x <= Source("prmslmsl", c)
                      /\ Source("prmslmsl", c) < 100 * (x + 1)

C5_Witness ==
    /\ pc = "done"
    /\ parameter = "Suhu Permukaan (tmp2m)"
    /\ \E c \in Cells(var) :
          Source("tmp2m", c) = 30000 /\ var.values[c[1]][c[2]] = 2685

\* C6: for the wind parameter every cell s of the display field, with x and y
\* the u and v source values of the same step and cell, is not negative, is 0
\* when x = y = 0, and is sqrt(x^2 + y^2) x 1.94384 to the resolution of the
\* arithmetic: some r with r^2 <= x^2 + y^2 < (r + 1)^2 has
\* s <= r x 1.94384 < s + 1.
C6_WindSpeed ==
    (HasField /\ is_vector) =>
        \A c \in Cells(var) :
            LET x == Source("ugrd10m", c)
                y == Source("vgrd10m", c)
                s == var.values[c[1]][c[2]]
                r0 == (s * 100000) \div 194384
            IN  /\ s >= 0
                /\ (x = 0 /\ y = 0) => s = 0
                /\ \E r \in r0..(r0 + 1) :
                      /\ r >= 0
                      /\ r * r <= x * x + y * y
                      /\ x * x + y * y < (r + 1) * (r + 1)
                      /\ s * 100000 <= r * 194384
                      /\ r * 194384 < (s + 1) * 100000

C6_Witness ==
    /\ pc = "done" /\ is_vector
    /\ \E c \in Cells(var) :
          /\ Source("ugrd10m", c) = 0 /\ Source("vgrd10m", c) = 0
          /\ var.values[c[1]][c[2]] = 0
    /\ \E c \in Cells(var) :
          /\ Source("ugrd10m", c) < 0 /\ Source("vgrd10m", c) < 0
          /\ var.values[c[1]][c[2]] > 0

\* The region and the dataset's grid extent have a point in common.
Overlaps(d) ==
    /\ d.grid.nlat > 0 /\ d.grid.nlon > 0
    /\ Lat(d)[1] <= 4 /\ Lat(d)[d.grid.nlat] >= -5
    /\ Lon(d)[1] <= 115 /\ Lon(d)[d.grid.nlon] >= 107

\* C8: after the clip of a dataset whose latitude and longitude axes ascend,
\* every latitude of the display field is in -5..4, every longitude in
\* 107..115, the values have the shape of the axes, and the field is not
\* empty when the region overlaps the dataset's extent.
C8_ClipWithinRegion ==
    (PastClip /\ IsAscending(Lat(ds)) /\ IsAscending(Lon(ds))) =>
        /\ \A i \in 1..Len(var.lat) : -5 <= var.lat[i] /\ var.lat[i] <= 4
        /\ \A j \in 1..Len(var.lon) : 107 <= var.lon[j] /\ var.lon[j] <= 115
        /\ Len(var.values) = Len(var.lat)
        /\ \A i \in 1..Len(var.lat) : Len(var.values[i]) = Len(var.lon)
        /\ Overlaps(ds) => (Len(var.lat) > 0 /\ Len(var.lon) > 0)

C8_Witness ==
    /\ pc = "done"
    /\ IsAscending(Lat(ds)) /\ IsAscending(Lon(ds)) /\ Overlaps(ds)
    /\ Len(Lat(ds)) > Len(var.lat) /\ Len(Lon(ds)) > Len(var.lon)
    /\ var.lat = <<-5, -4, -3, -2, -1, 0, 1, 2, 3, 4>>
    /\ var.lon = <<108, 110, 112, 114>>

\* C9: when the vector flag is set, after the clip u and v have the latitude
\* and longitude axes of the display field and values of that shape, and
\* every arrow handed to quiver carries the u and v source values of the
\* selected step at the arrow's own position, one arrow per strided cell.
C9_VectorAligned ==
    /\ (is_vector /\ PastClip) =>
          /\ u.lat = var.lat /\ u.lon = var.lon
          /\ v.lat = var.lat /\ v.lon = var.lon
          /\ DOMAIN u.values = DOMAIN var.values
          /\ DOMAIN v.values = DOMAIN var.values
          /\ \A i \in DOMAIN var.values :
                /\ DOMAIN u.values[i] = DOMAIN var.values[i]
                /\ DOMAIN v.values[i] = DOMAIN var.values[i]
    /\ (is_vector /\ pc = "done") =>
          /\ \A a \in arrows :
                /\ a.u = FieldValue("ugrd10m", forecast_hour, a.y, a.x)
                /\ a.v = FieldValue("vgrd10m", forecast_hour, a.y, a.x)
          /\ { <<a.y, a.x>> : a \in arrows } =
                { <<var.lat[i], var.lon[j]>> :
                    i \in {k \in 1..Len(var.lat) : k % 5 = 1},
                    j \in {k \in 1..Len(var.lon) : k % 5 = 1} }

C9_Witness ==
    /\ is_vector /\ pc = "done"
    /\ Cardinality(arrows) >= 2
    /\ u.lat = var.lat /\ Len(u.lat) > 5

\* C10: the selected step is in 0..240; a loaded request whose step is at or
\* past the number of time steps of the dataset ends on the uncaught
\* exception, raised by the first positional indexing: no field is resolved,
\* nothing is drawn, and neither the plot nor the download is emitted; a
\* loaded request whose step is inside the time axis is not ended by the
\* dispatch.
C10_StepOutOfRange ==
    /\ forecast_hour \in 0..240
    /\ (Loaded /\ PastResolve /\ ~NoRuleMatches(parameter)
            /\ forecast_hour >= ds.ntime) =>
          /\ pc = "crashed"
          /\ out = <<"success", "exception">>
          /\ Cardinality(reads) = 1 /\ "time" \notin reads
          /\ var = NoArray /\ u = NoArray /\ v = NoArray
          /\ drawn = << >>
          /\ arrows = {}
    /\ (Loaded /\ PastResolve /\ ~NoRuleMatches(parameter)
            /\ forecast_hour < ds.ntime) => HasField

C10_Witness ==
    /\ Loaded /\ pc = "crashed"
    /\ forecast_hour = 121 /\ ds.ntime = 121
    /\ out = <<"success", "exception">>

====
